---- MODULE Spec2Model ----
(***************************************************************************)
(* Model of the URL shortener's storage engine (server/db: readDB,         *)
(* writeDB, findUrl, findCode, saveUrl, registerClick) and of the two HTTP *)
(* handlers that drive it (POST /api/shorten, GET /r/:code). The initial   *)
(* state is the one initDB leaves on a first start: the empty store.       *)
(*                                                                         *)
(* Three specifications: Spec (the handlers, concurrently), SpecSeq (the   *)
(* handlers, one request after the other) and SpecApi (the exported db     *)
(* functions called directly by concurrent callers).                       *)
(*                                                                         *)
(* Every `await` of the source is a step boundary: between two steps of    *)
(* one accessor any other accessor (request handler, possibly in another   *)
(* process sharing the data file) may run.                                 *)
(*                                                                         *)
(* The record fields `short` (a function of `code`) and `createdAt` (a     *)
(* clock reading) take no part in any decision of the code and are not     *)
(* carried in the records of the model.                                    *)
(***************************************************************************)
EXTENDS Integers, Sequences, FiniteSets, TLC

\* ------------------------------------------------------------------ bounds
NumAcc == 2          \* concurrent accessors (in-flight request handlers)
NumUrls == 2         \* distinct validated URLs a client may submit
NumCodes == 2        \* size of the space Math.random() draws short codes from
MaxShorten == 2      \* POST /api/shorten requests started in one behaviour
MaxRedirect == 2     \* GET /r/:code requests started in one behaviour
MaxCalls == 2        \* direct calls of the exported db functions in one behaviour

Acc == 1..NumAcc
Urls == 1..NumUrls
Codes == 1..NumCodes

Free == 0            \* lockfile absent
NoUrl == 0           \* local `validatedUrl` / `originalUrl` not bound
NoCode == 0          \* local `code` not bound

VARIABLES
  file,       \* content of data/urls.json
  persisted,  \* the store most recently written completely to data/urls.json
  lockFile,   \* data/urls.json.lock: Free, or the accessor that created it
  pc,         \* per accessor: position inside readDB / writeDB
  req,        \* per accessor: the HTTP handler it runs
  call,       \* per accessor: the db function it is inside
  url,        \* per accessor: validatedUrl (shorten) / originalUrl (redirect)
  code,       \* per accessor: code
  db,         \* per accessor: the parsed working copy returned by readDB
  err,        \* per accessor: the exception in flight
  res,        \* per accessor: the HTTP response of its last request
  nShorten,   \* number of shorten requests started
  nRedirect,  \* number of redirect requests started
  nCalls,     \* number of direct calls of exported db functions started
  clicked,    \* per code: registerClick calls that returned after their write
  returned    \* per URL: the codes the shorten handler has answered with

vars == <<file, persisted, lockFile, pc, req, call, url, code, db, err, res,
          nShorten, nRedirect, nCalls, clicked, returned>>

\* --------------------------------------------------------------- the store
EmptyStore == [urls |-> <<>>, codes |-> <<>>]

\* JSON.stringify(data, null, 2): the text of a store
Stringify(data) == [kind |-> "json", urls |-> data.urls, codes |-> data.codes]

\* what fs.writeFile leaves between its open(O_TRUNC) and its write
Truncated == [kind |-> "empty", urls |-> <<>>, codes |-> <<>>]

\* a text written over a different text another writer put there meanwhile
Garbage == [kind |-> "garbage", urls |-> <<>>, codes |-> <<>>]

\* the file does not exist
Absent == [kind |-> "absent", urls |-> <<>>, codes |-> <<>>]

\* fs.readFile(dataPath).catch(() => '{"urls":[],"codes":{}}')
ReadFile(f) == IF f.kind = "absent" THEN Stringify(EmptyStore) ELSE f

\* JSON.parse throws a SyntaxError on "" and on overlapped text
ParseThrows(data) == data.kind # "json"

\* JSON.parse(data)
Parse(data) == [urls |-> data.urls, codes |-> data.codes]

\* Array.prototype.find over the positions S that satisfy the callback: the
\* first of them, 0 if there is none
First(S) == IF S = {} THEN 0 ELSE CHOOSE i \in S : \A j \in S : i <= j

\* findUrl's scan as it would be with the wrong field compared
\* (item.code === originalUrl)
FindByOriginalWrongField(d, u) ==
  First({i \in 1..Len(d.urls) : d.urls[i].code = u})

\* db.urls.find((item) => item.original === originalUrl)
FindByOriginal(d, u) == First({i \in 1..Len(d.urls) : d.urls[i].original = u})

\* db.urls.find((item) => item.code === code)
FindByCode(d, c) == First({i \in 1..Len(d.urls) : d.urls[i].code = c})

\* db.codes[shortCode] is truthy
HasCode(d, c) == c \in DOMAIN d.codes

\* urlData of the shorten handler
UrlData(u, c) == [original |-> u, code |-> c, clicks |-> 0]

\* saveUrl's update as it would be without the index assignment
\* (db.urls.push(urlData) only)
PushUrlNoIndex(d, r) == [urls |-> Append(d.urls, r), codes |-> d.codes]

\* db.urls.push(urlData); db.codes[urlData.code] = urlData.original
PushUrl(d, r) ==
  [urls  |-> Append(d.urls, r),
   codes |-> [c \in (DOMAIN d.codes) \cup {r.code} |->
                IF c = r.code THEN r.original ELSE d.codes[c]]]

\* (url.clicks || 0)
OrZero(n) == IF n = 0 THEN 0 ELSE n

\* the increment as it would be with the counter set, not incremented
\* (url.clicks = 1)
IncrementClicksSet(d, i) == [d EXCEPT !.urls[i].clicks = 1]

\* url.clicks = (url.clicks || 0) + 1 on the record found by code
IncrementClicks(d, i) ==
  [d EXCEPT !.urls[i].clicks = OrZero(d.urls[i].clicks) + 1]

\* ------------------------------------------------------------------ responses
NoRes == [kind |-> "none", original |-> NoUrl, code |-> NoCode]
Response(k, u, c) == [kind |-> k, original |-> u, code |-> c]

Init ==
  /\ file = Stringify(EmptyStore)
  /\ persisted = EmptyStore
  /\ lockFile = Free
  /\ pc = [a \in Acc |-> "idle"]
  /\ req = [a \in Acc |-> "none"]
  /\ call = [a \in Acc |-> "none"]
  /\ url = [a \in Acc |-> NoUrl]
  /\ code = [a \in Acc |-> NoCode]
  /\ db = [a \in Acc |-> EmptyStore]
  /\ err = [a \in Acc |-> "none"]
  /\ res = [a \in Acc |-> NoRes]
  /\ nShorten = 0
  /\ nRedirect = 0
  /\ nCalls = 0
  /\ clicked = [c \in Codes |-> 0]
  /\ returned = [u \in Urls |-> {}]

\* the handler has sent its response: its locals are gone
Finish(a, r) ==
  /\ pc' = [pc EXCEPT ![a] = "idle"]
  /\ req' = [req EXCEPT ![a] = "none"]
  /\ call' = [call EXCEPT ![a] = "none"]
  /\ url' = [url EXCEPT ![a] = NoUrl]
  /\ code' = [code EXCEPT ![a] = NoCode]
  /\ db' = [db EXCEPT ![a] = EmptyStore]
  /\ err' = [err EXCEPT ![a] = "none"]
  /\ res' = [res EXCEPT ![a] = r]
  /\ returned' = IF req[a] = "shorten" /\ r.kind \in {"ok", "created"}
                 THEN [returned EXCEPT ![r.original] = @ \cup {r.code}]
                 ELSE returned

\* `await f(...)` of a db function: it starts with `await readDB()`
Enter(a, f) ==
  /\ call' = [call EXCEPT ![a] = f]
  /\ pc' = [pc EXCEPT ![a] = "rLock"]
  /\ db' = [db EXCEPT ![a] = EmptyStore]

\* the finally block as it would be without its unlock
UnlockForgotten == lockFile' = lockFile

\* await unlock(lockPath).catch(() => {}): unlinks the lockfile, whoever made it
Unlock == lockFile' = Free

\* Accessors are anonymous: a new request or call takes the lowest idle one.
CanStart(a) == pc[a] = "idle" /\ \A b \in Acc : b < a => pc[b] # "idle"

\* --------------------------------------------------------------- handlers
\* POST /api/shorten up to `await findUrl(validatedUrl)`
StartShorten(a, u) ==
  /\ CanStart(a)
  /\ nShorten < MaxShorten
  /\ nShorten' = nShorten + 1
  /\ req' = [req EXCEPT ![a] = "shorten"]
  /\ url' = [url EXCEPT ![a] = u]
  /\ res' = [res EXCEPT ![a] = NoRes]
  /\ Enter(a, "findUrl")
  /\ UNCHANGED <<file, persisted, lockFile, code, err, nRedirect, nCalls, clicked, returned>>

\* GET /r/:code up to `await findCode(code)`
StartRedirect(a, c) ==
  /\ CanStart(a)
  /\ nRedirect < MaxRedirect
  /\ nRedirect' = nRedirect + 1
  /\ req' = [req EXCEPT ![a] = "redirect"]
  /\ code' = [code EXCEPT ![a] = c]
  /\ res' = [res EXCEPT ![a] = NoRes]
  /\ Enter(a, "findCode")
  /\ UNCHANGED <<file, persisted, lockFile, url, err, nShorten, nCalls, clicked, returned>>

\* ----------------------------------------------------------------- readDB
\* await lock(lockPath, { wait: 1000 }) creates the lockfile
ReadDBLock(a) ==
  /\ pc[a] = "rLock"
  /\ lockFile = Free
  /\ lockFile' = a
  /\ pc' = [pc EXCEPT ![a] = "rRead"]
  /\ UNCHANGED <<file, persisted, req, call, url, code, db, err, res,
                 nShorten, nRedirect, nCalls, clicked, returned>>

\* the lockfile stayed there for the whole wait: lock rejects (EEXIST)
ReadDBLockTimeout(a) ==
  /\ pc[a] = "rLock"
  /\ lockFile # Free
  /\ err' = [err EXCEPT ![a] = "timeout"]
  /\ pc' = [pc EXCEPT ![a] = "rUnlock"]
  /\ UNCHANGED <<file, persisted, lockFile, req, call, url, code, db, res,
                 nShorten, nRedirect, nCalls, clicked, returned>>

\* readDB as it would be with the file opened for update with truncation
\* (flag 'w+'): the open empties the file and JSON.parse("") throws
ReadDBReadTruncates(a) ==
  /\ pc[a] = "rRead"
  /\ file' = Truncated
  /\ err' = [err EXCEPT ![a] = "parse"]
  /\ pc' = [pc EXCEPT ![a] = "rUnlock"]
  /\ UNCHANGED <<persisted, lockFile, req, call, url, code, db, res,
                 nShorten, nRedirect, nCalls, clicked, returned>>

\* const data = await fs.readFile(...).catch(...); return JSON.parse(data)
ReadDBRead(a) ==
  /\ pc[a] = "rRead"
  /\ LET data == ReadFile(file) IN
       IF ParseThrows(data)
       THEN /\ err' = [err EXCEPT ![a] = "parse"]
            /\ db' = db
       ELSE /\ db' = [db EXCEPT ![a] = Parse(data)]
            /\ err' = err
  /\ pc' = [pc EXCEPT ![a] = "rUnlock"]
  /\ UNCHANGED <<file, persisted, lockFile, req, call, url, code, res,
                 nShorten, nRedirect, nCalls, clicked, returned>>

\* readDB's finally, then the exception reaches the handler's catch
ReadDBThrow(a) ==
  /\ pc[a] = "rUnlock"
  /\ err[a] # "none"
  /\ Unlock
  /\ Finish(a, Response("error", NoUrl, NoCode))
  /\ UNCHANGED <<file, persisted, nShorten, nRedirect, nCalls, clicked>>

\* readDB's finally, findUrl returns, the shorten handler goes on to its
\* first `await findCode(code)`
FindUrlReturn(a) ==
  /\ pc[a] = "rUnlock"
  /\ err[a] = "none"
  /\ call[a] = "findUrl"
  /\ req[a] = "shorten"
  /\ Unlock
  /\ LET i == FindByOriginal(db[a], url[a]) IN
       IF i # 0
       THEN /\ Finish(a, Response("ok", db[a].urls[i].original, db[a].urls[i].code))
       ELSE /\ \E c \in Codes : code' = [code EXCEPT ![a] = c]
            /\ Enter(a, "findCode")
            /\ UNCHANGED <<req, url, err, res, returned>>
  /\ UNCHANGED <<file, persisted, nShorten, nRedirect, nCalls, clicked>>

\* readDB's finally, findCode returns into `do { ... } while (await findCode(code))`
ShortenFindCodeReturn(a) ==
  /\ pc[a] = "rUnlock"
  /\ err[a] = "none"
  /\ call[a] = "findCode"
  /\ req[a] = "shorten"
  /\ Unlock
  /\ IF HasCode(db[a], code[a])
     THEN /\ \E c \in Codes : code' = [code EXCEPT ![a] = c]
          /\ Enter(a, "findCode")
     ELSE /\ code' = code
          /\ Enter(a, "saveUrl")
  /\ UNCHANGED <<file, persisted, req, url, err, res, nShorten, nRedirect, nCalls, clicked, returned>>

\* readDB's finally, findCode returns into the redirect handler
RedirectFindCodeReturn(a) ==
  /\ pc[a] = "rUnlock"
  /\ err[a] = "none"
  /\ call[a] = "findCode"
  /\ req[a] = "redirect"
  /\ Unlock
  /\ IF ~HasCode(db[a], code[a])
     THEN Finish(a, Response("notfound", NoUrl, code[a]))
     ELSE /\ url' = [url EXCEPT ![a] = db[a].codes[code[a]]]
          /\ Enter(a, "registerClick")
          /\ UNCHANGED <<req, code, err, res, returned>>
  /\ UNCHANGED <<file, persisted, nShorten, nRedirect, nCalls, clicked>>

\* saveUrl from readDB's return to `await writeDB(db)`
SaveUrlRead(a) ==
  /\ pc[a] = "rUnlock"
  /\ err[a] = "none"
  /\ call[a] = "saveUrl"
  /\ Unlock
  /\ db' = [db EXCEPT ![a] = PushUrl(db[a], UrlData(url[a], code[a]))]
  /\ pc' = [pc EXCEPT ![a] = "wLock"]
  /\ UNCHANGED <<file, persisted, req, call, url, code, err, res,
                 nShorten, nRedirect, nCalls, clicked, returned>>

\* registerClick as it would be without `if (url)`: it writes the store back
\* whether or not it found a record
RegisterClickReadAlwaysWrites(a) ==
  /\ pc[a] = "rUnlock"
  /\ err[a] = "none"
  /\ call[a] = "registerClick"
  /\ lockFile' = Free
  /\ LET i == IF code[a] \in {db[a].urls[j].code : j \in 1..Len(db[a].urls)}
              THEN CHOOSE j \in 1..Len(db[a].urls) : db[a].urls[j].code = code[a]
              ELSE 0 IN
       db' = [db EXCEPT ![a] = IF i # 0
                               THEN [@ EXCEPT !.urls[i].clicks = @ + 1]
                               ELSE @]
  /\ pc' = [pc EXCEPT ![a] = "wLock"]
  /\ UNCHANGED <<file, persisted, req, call, url, code, err, res,
                 nShorten, nRedirect, nCalls, clicked, returned>>

\* registerClick from readDB's return to `await writeDB(db)`, or to its end
RegisterClickRead(a) ==
  /\ pc[a] = "rUnlock"
  /\ err[a] = "none"
  /\ call[a] = "registerClick"
  /\ Unlock
  /\ LET i == FindByCode(db[a], code[a]) IN
       IF i # 0
       THEN /\ db' = [db EXCEPT ![a] = IncrementClicks(db[a], i)]
            /\ pc' = [pc EXCEPT ![a] = "wLock"]
            /\ UNCHANGED <<req, call, url, code, err, res, returned>>
       ELSE Finish(a, Response(IF req[a] = "api" THEN "returned" ELSE "redirect",
                               url[a], code[a]))
  /\ UNCHANGED <<file, persisted, nShorten, nRedirect, nCalls, clicked>>

\* ---------------------------------------------------------------- writeDB
\* await lock(lockPath, { wait: 1000 })
WriteDBLock(a) ==
  /\ pc[a] = "wLock"
  /\ lockFile = Free
  /\ lockFile' = a
  /\ pc' = [pc EXCEPT ![a] = "wOpen"]
  /\ UNCHANGED <<file, persisted, req, call, url, code, db, err, res,
                 nShorten, nRedirect, nCalls, clicked, returned>>

\* writeDB as it would be with the rejection of lock swallowed: it goes on to
\* its writeFile
WriteDBLockTimeoutProceeds(a) ==
  /\ pc[a] = "wLock"
  /\ lockFile # Free
  /\ err' = [err EXCEPT ![a] = "timeout"]
  /\ pc' = [pc EXCEPT ![a] = "wOpen"]
  /\ UNCHANGED <<file, persisted, lockFile, req, call, url, code, db, res,
                 nShorten, nRedirect, nCalls, clicked, returned>>

\* the lockfile stayed there for the whole wait: lock rejects (EEXIST)
WriteDBLockTimeout(a) ==
  /\ pc[a] = "wLock"
  /\ lockFile # Free
  /\ err' = [err EXCEPT ![a] = "timeout"]
  /\ pc' = [pc EXCEPT ![a] = "wUnlock"]
  /\ UNCHANGED <<file, persisted, lockFile, req, call, url, code, db, res,
                 nShorten, nRedirect, nCalls, clicked, returned>>

\* fs.writeFile opens the file with O_TRUNC
WriteDBOpen(a) ==
  /\ pc[a] = "wOpen"
  /\ file' = Truncated
  /\ pc' = [pc EXCEPT ![a] = "wWrite"]
  /\ UNCHANGED <<persisted, lockFile, req, call, url, code, db, err, res,
                 nShorten, nRedirect, nCalls, clicked, returned>>

\* the texts fs.writeFile's write at offset 0 can leave in a file holding `f`:
\* `text` on the empty file it truncated; on a file another writer filled since
\* then, `text` or (when that content is longer) `text` followed by its tail
Overwrite(f, text) ==
  IF f.kind = "empty" \/ f = text THEN {text} ELSE {text, Garbage}

\* fs.writeFile writes JSON.stringify(data, null, 2) and closes
WriteDBWrite(a) ==
  /\ pc[a] = "wWrite"
  /\ file' \in Overwrite(file, Stringify(db[a]))
  /\ persisted' = IF file'.kind = "json" THEN Parse(file') ELSE persisted
  /\ pc' = [pc EXCEPT ![a] = "wUnlock"]
  /\ UNCHANGED <<lockFile, req, call, url, code, db, err, res,
                 nShorten, nRedirect, nCalls, clicked, returned>>

\* writeDB's finally, then the exception reaches the handler's catch
WriteDBThrow(a) ==
  /\ pc[a] = "wUnlock"
  /\ err[a] # "none"
  /\ Unlock
  /\ Finish(a, Response("error", NoUrl, NoCode))
  /\ UNCHANGED <<file, persisted, nShorten, nRedirect, nCalls, clicked>>

\* writeDB's finally, saveUrl returns, the handler answers 201
SaveUrlReturn(a) ==
  /\ pc[a] = "wUnlock"
  /\ err[a] = "none"
  /\ call[a] = "saveUrl"
  /\ Unlock
  /\ Finish(a, Response("created", url[a], code[a]))
  /\ UNCHANGED <<file, persisted, nShorten, nRedirect, nCalls, clicked>>

\* writeDB's finally, registerClick returns, the handler redirects
RegisterClickReturn(a) ==
  /\ pc[a] = "wUnlock"
  /\ err[a] = "none"
  /\ call[a] = "registerClick"
  /\ Unlock
  /\ clicked' = [clicked EXCEPT ![code[a]] = @ + 1]
  /\ Finish(a, Response(IF req[a] = "api" THEN "returned" ELSE "redirect",
                        url[a], code[a]))
  /\ UNCHANGED <<file, persisted, nShorten, nRedirect, nCalls>>

\* ------------------------------------------- the exported functions, called directly
\* a caller of the module awaits one of findUrl, findCode, saveUrl, registerClick
StartCall(a, f, u, c) ==
  /\ CanStart(a)
  /\ nCalls < MaxCalls
  /\ nCalls' = nCalls + 1
  /\ req' = [req EXCEPT ![a] = "api"]
  /\ url' = [url EXCEPT ![a] = u]
  /\ code' = [code EXCEPT ![a] = c]
  /\ res' = [res EXCEPT ![a] = NoRes]
  /\ Enter(a, f)
  /\ UNCHANGED <<file, persisted, lockFile, err, nShorten, nRedirect, clicked, returned>>

CallFindUrl(a, u) == StartCall(a, "findUrl", u, NoCode)
CallFindCode(a, c) == StartCall(a, "findCode", NoUrl, c)
CallSaveUrl(a, u, c) == StartCall(a, "saveUrl", u, c)
CallRegisterClick(a, c) == StartCall(a, "registerClick", NoUrl, c)

\* readDB's finally, findUrl returns the record found, or undefined
CallFindUrlReturn(a) ==
  /\ pc[a] = "rUnlock"
  /\ err[a] = "none"
  /\ call[a] = "findUrl"
  /\ req[a] = "api"
  /\ Unlock
  /\ LET i == FindByOriginal(db[a], url[a]) IN
       Finish(a, IF i # 0
                 THEN Response("found", db[a].urls[i].original, db[a].urls[i].code)
                 ELSE Response("absent", NoUrl, NoCode))
  /\ UNCHANGED <<file, persisted, nShorten, nRedirect, nCalls, clicked>>

\* readDB's finally, findCode returns db.codes[shortCode]
CallFindCodeReturn(a) ==
  /\ pc[a] = "rUnlock"
  /\ err[a] = "none"
  /\ call[a] = "findCode"
  /\ req[a] = "api"
  /\ Unlock
  /\ Finish(a, IF HasCode(db[a], code[a])
               THEN Response("found", db[a].codes[code[a]], code[a])
               ELSE Response("absent", NoUrl, NoCode))
  /\ UNCHANGED <<file, persisted, nShorten, nRedirect, nCalls, clicked>>

\* one step of accessor a inside a request
Step(a) ==
  \/ ReadDBLock(a)
  \/ ReadDBRead(a)
  \/ FindUrlReturn(a)
  \/ ShortenFindCodeReturn(a)
  \/ RedirectFindCodeReturn(a)
  \/ SaveUrlRead(a)
  \/ RegisterClickRead(a)
  \/ WriteDBLock(a)
  \/ WriteDBOpen(a)
  \/ WriteDBWrite(a)
  \/ SaveUrlReturn(a)
  \/ RegisterClickReturn(a)

\* one step of accessor a that only contention or a damaged file makes possible
FailStep(a) ==
  \/ ReadDBLockTimeout(a)
  \/ ReadDBThrow(a)
  \/ WriteDBLockTimeout(a)
  \/ WriteDBThrow(a)

Next ==
  \E a \in Acc :
    \/ \E u \in Urls : StartShorten(a, u)
    \/ \E c \in Codes : StartRedirect(a, c)
    \/ Step(a)
    \/ FailStep(a)

Spec == Init /\ [][Next]_vars

\* no request is in progress
Quiet == \A a \in Acc : pc[a] = "idle"

\* requests run one after the other: a request starts only when none is running
NextSeq ==
  \E a \in Acc :
    \/ \E u \in Urls : Quiet /\ StartShorten(a, u)
    \/ \E c \in Codes : Quiet /\ StartRedirect(a, c)
    \/ Step(a)

SpecSeq == Init /\ [][NextSeq]_vars

\* the module used through its exports, by concurrent callers
NextApi ==
  \E a \in Acc :
    \/ \E u \in Urls : CallFindUrl(a, u)
    \/ \E c \in Codes : CallFindCode(a, c)
    \/ \E u \in Urls, c \in Codes : CallSaveUrl(a, u, c)
    \/ \E c \in Codes : CallRegisterClick(a, c)
    \/ ReadDBLock(a)
    \/ ReadDBRead(a)
    \/ CallFindUrlReturn(a)
    \/ CallFindCodeReturn(a)
    \/ SaveUrlRead(a)
    \/ RegisterClickRead(a)
    \/ WriteDBLock(a)
    \/ WriteDBOpen(a)
    \/ WriteDBWrite(a)
    \/ SaveUrlReturn(a)
    \/ RegisterClickReturn(a)
    \/ FailStep(a)

SpecApi == Init /\ [][NextApi]_vars

\* the module used through its exports, one call after the other
NextApiSeq ==
  \E a \in Acc :
    \/ \E u \in Urls : Quiet /\ CallFindUrl(a, u)
    \/ \E c \in Codes : Quiet /\ CallFindCode(a, c)
    \/ \E u \in Urls, c \in Codes : Quiet /\ CallSaveUrl(a, u, c)
    \/ \E c \in Codes : Quiet /\ CallRegisterClick(a, c)
    \/ ReadDBLock(a)
    \/ ReadDBRead(a)
    \/ CallFindUrlReturn(a)
    \/ CallFindCodeReturn(a)
    \/ SaveUrlRead(a)
    \/ RegisterClickRead(a)
    \/ WriteDBLock(a)
    \/ WriteDBOpen(a)
    \/ WriteDBWrite(a)
    \/ SaveUrlReturn(a)
    \/ RegisterClickReturn(a)

SpecApiSeq == Init /\ [][NextApiSeq]_vars

\* ------------------------------------------------------------------ initDB
\* the data file has never been created
InitAbsent ==
  /\ file = Absent
  /\ persisted = EmptyStore
  /\ lockFile = Free
  /\ pc = [a \in Acc |-> "down"]
  /\ req = [a \in Acc |-> "none"]
  /\ call = [a \in Acc |-> "none"]
  /\ url = [a \in Acc |-> NoUrl]
  /\ code = [a \in Acc |-> NoCode]
  /\ db = [a \in Acc |-> EmptyStore]
  /\ err = [a \in Acc |-> "none"]
  /\ res = [a \in Acc |-> NoRes]
  /\ nShorten = 0
  /\ nRedirect = 0
  /\ nCalls = 0
  /\ clicked = [c \in Codes |-> 0]
  /\ returned = [u \in Urls |-> {}]

\* start() of a process: await fs.mkdir(...); await fs.access(dataPath). When
\* the file is there initDB returns and the process listens; when it is not,
\* access rejects and the catch block goes on to fs.writeFile
InitDBAccess(a) ==
  /\ pc[a] = "down"
  /\ pc' = [pc EXCEPT ![a] = IF file.kind = "absent" THEN "iOpen" ELSE "idle"]
  /\ UNCHANGED <<file, persisted, lockFile, req, call, url, code, db, err, res,
                 nShorten, nRedirect, nCalls, clicked, returned>>

\* the catch block's fs.writeFile opens (creates) the file with O_TRUNC
InitDBOpen(a) ==
  /\ pc[a] = "iOpen"
  /\ file' = Truncated
  /\ pc' = [pc EXCEPT ![a] = "iWrite"]
  /\ UNCHANGED <<persisted, lockFile, req, call, url, code, db, err, res,
                 nShorten, nRedirect, nCalls, clicked, returned>>

\* fs.writeFile writes JSON.stringify({ urls: [], codes: {} }, null, 2) and
\* closes; initDB returns and the process listens
InitDBWrite(a) ==
  /\ pc[a] = "iWrite"
  /\ file' \in Overwrite(file, Stringify(EmptyStore))
  /\ persisted' = IF file'.kind = "json" THEN Parse(file') ELSE persisted
  /\ pc' = [pc EXCEPT ![a] = "idle"]
  /\ UNCHANGED <<lockFile, req, call, url, code, db, err, res,
                 nShorten, nRedirect, nCalls, clicked, returned>>

\* processes start on a machine without a data file and serve requests as soon
\* as their own initDB has returned
NextInit ==
  \E a \in Acc :
    \/ InitDBAccess(a)
    \/ InitDBOpen(a)
    \/ InitDBWrite(a)
    \/ \E u \in Urls : StartShorten(a, u)
    \/ \E c \in Codes : StartRedirect(a, c)
    \/ Step(a)
    \/ FailStep(a)

SpecInit == InitAbsent /\ [][NextInit]_vars

\* ------------------------------------------------- the code space used up
\* the store once every code has been handed out, each to the record of an
\* earlier URL (none of them in Urls)
FullStore ==
  [urls  |-> [c \in 1..NumCodes |-> UrlData(NumUrls + c, c)],
   codes |-> [c \in Codes |-> NumUrls + c]]

InitFull ==
  /\ file = Stringify(FullStore)
  /\ persisted = FullStore
  /\ lockFile = Free
  /\ pc = [a \in Acc |-> "idle"]
  /\ req = [a \in Acc |-> "none"]
  /\ call = [a \in Acc |-> "none"]
  /\ url = [a \in Acc |-> NoUrl]
  /\ code = [a \in Acc |-> NoCode]
  /\ db = [a \in Acc |-> EmptyStore]
  /\ err = [a \in Acc |-> "none"]
  /\ res = [a \in Acc |-> NoRes]
  /\ nShorten = 0
  /\ nRedirect = 0
  /\ nCalls = 0
  /\ clicked = [c \in Codes |-> 0]
  /\ returned = [u \in Urls |-> {}]

\* one step of accessor a inside a shorten request for a URL not yet stored
ShortenStep(a) ==
  \/ ReadDBLock(a)
  \/ ReadDBRead(a)
  \/ FindUrlReturn(a)
  \/ ShortenFindCodeReturn(a)

\* the steps of such a request, lock timeouts included
FullStep(a) ==
  \/ ShortenStep(a)
  \/ ReadDBLockTimeout(a)
  \/ ReadDBThrow(a)

NextFull ==
  \E a \in Acc :
    \/ \E u \in Urls : StartShorten(a, u)
    \/ FullStep(a)

\* every awaited promise settles (lock resolves or rejects within its wait,
\* readFile and unlock complete) and the event loop resumes the handler
SpecFull == InitFull /\ [][NextFull]_vars /\ \A a \in Acc : WF_vars(FullStep(a))

\* ================================================================ claims
\* positions of the records of store d
Idx(d) == 1..Len(d.urls)

\* number of records of store d whose original is u
CountOriginal(d, u) == Cardinality({i \in Idx(d) : d.urls[i].original = u})

\* number of records of store d whose code is c
CountCode(d, c) == Cardinality({i \in Idx(d) : d.urls[i].code = c})

\* the (original, code) pairs of the records of store d
Pairs(d) == {<<d.urls[i].original, d.urls[i].code>> : i \in Idx(d)}

\* store d holds a record with code c
HasRecord(d, c) == CountCode(d, c) > 0

\* accessor a takes a step
Moves(a) == pc'[a] # pc[a]

\* accessor a is inside writeDB
InWriteDB(a) == pc[a] \in {"wLock", "wOpen", "wWrite", "wUnlock"}

\* C1 (as claimed): under any interleaving of shorten requests, two persisted
\* records with different originals never carry the same code.
C1_UniqueCodes ==
  \A i, j \in Idx(persisted) :
    persisted.urls[i].original # persisted.urls[j].original
      => persisted.urls[i].code # persisted.urls[j].code

\* C2 (as claimed): under any interleaving of shorten requests, no two
\* persisted records have the same original.
C2_UniqueOriginals ==
  \A i, j \in Idx(persisted) :
    i # j => persisted.urls[i].original # persisted.urls[j].original

\* C3: with requests run one after the other, every shorten answer for a URL
\* carries one and the same code, the store holds exactly one record for each
\* URL answered (so a second run adds nothing), and that record has that code.
C3_Idempotent ==
  Quiet =>
    \A u \in Urls :
      IF returned[u] = {}
      THEN CountOriginal(persisted, u) = 0
      ELSE /\ CountOriginal(persisted, u) = 1
           /\ \E c \in Codes :
                /\ returned[u] = {c}
                /\ <<u, c>> \in Pairs(persisted)

\* C3 witness: a second run for an already shortened URL has answered with the
\* existing record.
C3_Witness ==
  /\ Quiet
  /\ nShorten = 2
  /\ \E a \in Acc :
       /\ res[a].kind = "ok"
       /\ returned[res[a].original] = {res[a].code}
       /\ Len(persisted.urls) = 1

\* C4 (as claimed): once no registerClick is running, the persisted clicks of a
\* record (the only one with its code) equals the number of registerClick calls
\* on its code that completed without error.
C4_NoLostIncrement ==
  (\A a \in Acc : call[a] # "registerClick") =>
    \A i \in Idx(persisted) :
      CountCode(persisted, persisted.urls[i].code) = 1
        => persisted.urls[i].clicks = clicked[persisted.urls[i].code]

\* C5 (as claimed): a record present in the persisted store is present in every
\* later persisted store.
C5_NoLostWrite == [][Pairs(persisted) \subseteq Pairs(persisted')]_vars

\* C6 (as claimed): persisted clicks are non-negative and no step lowers the
\* persisted clicks of a record that stays in place.
C6_ClicksMonotonic ==
  /\ [](\A i \in Idx(persisted) : persisted.urls[i].clicks >= 0)
  /\ [][\A i \in Idx(persisted) :
          (/\ i \in Idx(persisted')
           /\ persisted'.urls[i].original = persisted.urls[i].original
           /\ persisted'.urls[i].code = persisted.urls[i].code)
            => persisted'.urls[i].clicks >= persisted.urls[i].clicks]_vars

\* C7: with requests run one after the other, the write of each registerClick
\* adds exactly one to the clicks of the record with its code and changes
\* nothing else, and between requests every record's clicks equals the number
\* of registerClick calls made on its code.
C7_SequentialClicks ==
  /\ [](Quiet => \A i \in Idx(persisted) :
                   persisted.urls[i].clicks = clicked[persisted.urls[i].code])
  /\ [][\A a \in Acc :
          (call[a] = "registerClick" /\ pc[a] = "wWrite" /\ Moves(a)) =>
            \E i \in Idx(persisted) :
              /\ persisted.urls[i].code = code[a]
              /\ persisted' = [persisted EXCEPT !.urls[i].clicks = @ + 1]]_vars

\* C7 witness: two records stored, one clicked K = 2 times, the other never.
C7_Witness ==
  /\ Quiet
  /\ Len(persisted.urls) = 2
  /\ \E i, j \in Idx(persisted) :
       /\ persisted.urls[i].clicks = 2
       /\ clicked[persisted.urls[i].code] = 2
       /\ persisted.urls[j].clicks = 0

C9_LockReleased ==
  \A a \in Acc :
    /\ pc[a] = "idle" => lockFile # a
    /\ ((\A b \in Acc \ {a} : pc[b] = "idle") /\ pc[a] \in {"idle", "rLock", "wLock"})
         => lockFile = Free

\* C9 witness: an operation failed on lock timeout, another completed, nothing
\* runs any more and the lockfile is gone.
C9_Witness ==
  /\ Quiet
  /\ lockFile = Free
  /\ \E a, b \in Acc : res[a].kind = "error" /\ res[b].kind = "created"

\* C10 (as claimed): findCode never fails with a parse error, whatever the
\* file holds.
C10_FindCodeTolerant == \A a \in Acc : call[a] = "findCode" => err[a] # "parse"

\* accessor a is inside initDB
InInitDB(a) == pc[a] \in {"down", "iOpen", "iWrite"}

\* C11 (as claimed): under any interleaving of initDB of starting processes
\* with saveUrl / registerClick of processes already listening, a step of
\* initDB never removes a record from the persisted store: it never replaces
\* a populated file with the empty store.
C11_InitKeepsRecords ==
  [][\A a \in Acc :
       InInitDB(a) /\ Moves(a) => Pairs(persisted) \subseteq Pairs(persisted')]_vars

\* C12 (as claimed): under fair scheduling every shorten request eventually
\* ends (with a response or an error), also when every code is taken and its
\* URL is new.
C12_ShortenTerminates ==
  \A a \in Acc : (req[a] = "shorten") ~> (req[a] = "none")

\* the original of the record of store d with code c
OriginalOf(d, c) == d.urls[CHOOSE i \in Idx(d) : d.urls[i].code = c].original

\* the code of the record of store d with original u
CodeOf(d, u) == d.urls[CHOOSE i \in Idx(d) : d.urls[i].original = u].code

\* accessor a returns from a direct call of findUrl / findCode
ApiFindReturns(a) == req[a] = "api" /\ pc[a] = "rUnlock" /\ pc'[a] = "idle"

\* C13: with calls made one after the other, findCode(c) returns the original
\* of the one record saved with code c and findUrl(u) returns the one record
\* saved with original u (so its code); for a code / URL no saveUrl has stored
\* they return nothing.
C13_RoundTrip ==
  [][\A a \in Acc : ApiFindReturns(a) =>
       /\ (call[a] = "findCode" /\ CountCode(persisted, code[a]) = 1)
            => res'[a] = Response("found", OriginalOf(persisted, code[a]), code[a])
       /\ (call[a] = "findCode" /\ CountCode(persisted, code[a]) = 0)
            => res'[a] = Response("absent", NoUrl, NoCode)
       /\ (call[a] = "findUrl" /\ CountOriginal(persisted, url[a]) = 1)
            => res'[a] = Response("found", url[a], CodeOf(persisted, url[a]))
       /\ (call[a] = "findUrl" /\ CountOriginal(persisted, url[a]) = 0)
            => res'[a] = Response("absent", NoUrl, NoCode)]_vars

\* a saveUrl has completed and the findCode / findUrl after it has found the
\* record
C13_Witness ==
  /\ Quiet
  /\ nCalls = 2
  /\ Len(persisted.urls) = 1
  /\ \E a \in Acc : res[a].kind = "found"
                    /\ res[a].original = persisted.urls[1].original
                    /\ res[a].code = persisted.urls[1].code

\* accessor a is inside a critical section of readDB / writeDB: its lock call
\* has resolved and its finally block has not run yet
InCritical(a) ==
  \/ pc[a] \in {"rRead", "wOpen", "wWrite"}
  \/ pc[a] \in {"rUnlock", "wUnlock"} /\ err[a] # "timeout"

\* C14 (as claimed): at any instant at most one accessor is inside a critical
\* section, also after lock acquisitions have timed out.
C14_MutualExclusion ==
  \A a, b \in Acc : InCritical(a) /\ InCritical(b) => a = b

\* store d already holds a record with original u or with code c
Present(d, u, c) == CountOriginal(d, u) > 0 \/ CountCode(d, c) > 0

\* C15 (as claimed): saveUrl re-validates at the moment it commits: when the
\* file already holds a record with its original or with its code, the write
\* of saveUrl appends nothing.
C15_SaveUrlRevalidates ==
  [][\A a \in Acc :
       (call[a] = "saveUrl" /\ pc[a] = "wWrite" /\ Moves(a)
        /\ Present(persisted, url[a], code[a]))
         => Len(persisted'.urls) <= Len(persisted.urls)]_vars

\* C16: a readDB / writeDB whose lock call times out leaves the data file as
\* it is, both when the rejection is raised and when its finally block has run,
\* ends with the error delivered to the caller, and neither then nor before
\* owns the lockfile.
C16_TimeoutFailsCleanly ==
  [][\A a \in Acc :
       /\ (Moves(a) /\ err'[a] = "timeout")
            => /\ file' = file /\ persisted' = persisted
               /\ lockFile # a /\ lockFile' # a
       /\ (Moves(a) /\ err[a] = "timeout")
            => /\ file' = file /\ persisted' = persisted
               /\ pc'[a] = "idle" /\ res'[a].kind = "error"
               /\ lockFile' # a]_vars

\* the lock call of a saveUrl's writeDB has timed out
C16_Witness ==
  \E a \in Acc : err[a] = "timeout" /\ call[a] = "saveUrl" /\ pc[a] = "wUnlock"

\* the `codes` index and the `urls` sequence of store d agree
IndexAgrees(d) ==
  /\ \A c \in DOMAIN d.codes :
       /\ CountCode(d, c) = 1
       /\ \A i \in Idx(d) : d.urls[i].code = c => d.urls[i].original = d.codes[c]
  /\ \A i \in Idx(d) : d.urls[i].code \in DOMAIN d.codes

\* C17 (as claimed): in every persisted state reached by concurrent shorten
\* requests and registerClick calls, each key c of `codes` has exactly one
\* record with code c, `codes[c]` is that record's original, and each record's
\* code is a key of `codes`.
C17_IndexAgrees == IndexAgrees(persisted)

\* accessor a is about to read or write the data file (readFile of readDB,
\* open or write of a writeFile of writeDB or initDB)
AtFileAccess(a) == pc[a] \in {"rRead", "wOpen", "wWrite", "iOpen", "iWrite"}

\* C18 (as claimed): every read and every write of the data file, in initDB,
\* readDB and writeDB, is done by an accessor that owns the lockfile.
C18_AccessUnderLock ==
  [][\A a \in Acc : AtFileAccess(a) /\ Moves(a) => lockFile = a]_vars

\* accessor a is inside findUrl or findCode
InFind(a) == call[a] \in {"findUrl", "findCode"}

\* C19: no step of a findUrl or findCode call, in any interleaving and whatever
\* the call returns, changes the data file; the persisted records and code
\* index are the same after the step as before.
C19_FindReadOnly ==
  [][\A a \in Acc : InFind(a) /\ Moves(a) => file' = file /\ persisted' = persisted]_vars

\* a findCode has read the store while another caller's saveUrl is under way,
\* and returns
C19_Witness ==
  \E a, b \in Acc :
    /\ InFind(a) /\ pc[a] = "rUnlock" /\ err[a] = "none"
    /\ call[b] = "saveUrl" /\ InWriteDB(b)

\* C20 (as claimed): the lockfile is removed only by the accessor that created
\* it; the unlock of a finally block reached after a failed lock leaves another
\* accessor's lockfile in place.
C20_UnlockByHolder ==
  [][\A a \in Acc :
       Moves(a) /\ lockFile # Free /\ lockFile' = Free => lockFile = a]_vars

====
